---- MODULE Spec2Model ----
(***************************************************************************)
(* Snake_ball (script.js): a snake chases a fleeing food ball on a canvas  *)
(* that shrinks each time the ball is eaten.  The model covers the session *)
(* state and every callback that changes it: initGame, updateSnakeLogic,   *)
(* updateFoodLogic, animate, the keydown listener (turns and boost) and    *)
(* the boost-revert timeout.  Callbacks run to completion on the event     *)
(* loop, so each one is a single action; their order is left open.         *)
(*                                                                         *)
(* Coordinates are in pixels as in the source (multiples of gridSize).     *)
(* What only the renderer reads is left out: lastUpdateTime,               *)
(* lastFoodUpdateTime, food.prevX / food.prevY and the unused              *)
(* foodDirection.  The snake's prevX / prevY are kept.                     *)
(***************************************************************************)
EXTENDS Integers, Sequences, FiniteSets

\* ---------------------------------------------------------------- constants
gridSize == 20
initialCanvasWidth == 400
initialCanvasHeight == 400
shrinkAmount == 20
minCanvasSize == 100
baseGameSpeed == 150
speedIncreaseAmount == 5
minGameSpeed == 50
sprintDuration == 500
\* sprintSpeedMultiplier = 0.4 = 4/10
sprintSpeedTenths == 4
\* variant: the multiplier is applied to the minimum interval
boostedFromMinGameSpeed == (minGameSpeed * sprintSpeedTenths) \div 10
\* baseGameSpeed * sprintSpeedMultiplier (150 * 0.4 is exactly 60 in IEEE double
\* arithmetic)
boostedGameSpeed == (baseGameSpeed * sprintSpeedTenths) \div 10
maxRandomSprints == 1
minChaseTime == 3000
maxChaseTime == 5000
\* fleeDistance = gridSize * 2
fleeDistance == gridSize * 2

\* ------------------------------------------------------------------- bounds
\* Math.random() in generateFood is explored for the cells at most this many
\* grid cells (per axis) away from the snake's head
FoodReach == 1
\* the clock advances in steps of TimeStep
TimeStep == sprintDuration
\* A run is explored within one of several sets of limits:
\*   ticks   - snake steps (ticks that move or collide)
\*   turns   - turn commands that change the direction
\*   clock   - steps of the clock
\*   clockFrom - snake steps after which the clock is let advance
\*   reverts - boost-revert timeouts pending at the same time
\*   resets  - clicks on the restart button
\*   keys    - << >> when the player may turn at any time, else the turns the
\*             player makes: each key with the number of snake steps after
\*             which it is pressed, always before the step that follows
\* play up to a collision, with a boost
PlayTicks == 6
PlayTurns == 1
PlayClockSteps == 1
PlayReverts == 1
PlayResets == 0
\* play up to a collision, then restart
RestartTicks == 6
RestartTurns == 1
RestartClockSteps == 0
RestartReverts == 0
RestartResets == 1
\* overlapping boosts
BoostTicks == 2
BoostTurns == 0
BoostClockSteps == 2
BoostReverts == 2
BoostResets == 1
\* long chases
ChaseTicks == 1
ChaseTurns == 0
ChaseClockSteps == 11
ChaseReverts == 0
ChaseResets == 0
\* many meals
FeastTicks == 8
FeastTurns == 2
FeastClockSteps == 0
FeastReverts == 0
FeastResets == 0
Key(n, k) == [at |-> n, key |-> k]
\* The snake fills the arena.  With the food drawn at (80,80) and every later
\* draw on the cell the snake steps on next, the player takes the snake into
\* the top left corner of the canvas and then, eating at every step, along
\* a path through all 25 cells of the 100x100 arena.
FillTicks == 30
FillClockSteps == 0
FillReverts == 0
FillResets == 0
FillKeys ==
    << Key(0, "up"), Key(2, "left"), Key(5, "down"), Key(6, "right"), Key(8, "up"),
       Key(12, "left"), Key(13, "down"), Key(16, "left"), Key(17, "up"),
       Key(20, "left"), Key(21, "down"), Key(25, "left"), Key(26, "up") >>
\* The long escape is used up in the smallest arena.  The player steers as
\* in the run that fills the arena, up to the tenth meal; then the snake
\* rests and the clock runs, long enough for the escape and for a chase of
\* 5000 ms after it.
EndgameTicks == 17
EndgameClockSteps == 16
EndgameClockFrom == 17
EndgameReverts == 0
EndgameResets == 0
\* The direction is turned twice between two snake steps.  The snake eats
\* three times going right and twice going down, turns right and eats on the
\* last column of the arena; the player then presses up and left before the
\* next step.
ReverseTicks == 7
ReverseClockSteps == 0
ReverseReverts == 0
ReverseResets == 0
ReverseKeys == << Key(3, "down"), Key(5, "right"), Key(6, "up"), Key(6, "left") >>
\* Held spacebar.  Time is followed to the millisecond up to the first snake
\* steps; the player presses the spacebar at instants KeyRepeat apart.
LiveTicks == 1
LiveReverts == 10
LiveResets == 0
KeyRepeat == 50
Limits(t, u, c, f, r, s, k) ==
    [ticks |-> t, turns |-> u, clock |-> c, clockFrom |-> f, reverts |-> r, resets |-> s,
     keys |-> k]
Profiles ==
    { Limits(PlayTicks, PlayTurns, PlayClockSteps, 0, PlayReverts, PlayResets, << >>),
      Limits(RestartTicks, RestartTurns, RestartClockSteps, 0, RestartReverts, RestartResets,
             << >>),
      Limits(BoostTicks, BoostTurns, BoostClockSteps, 0, BoostReverts, BoostResets, << >>),
      Limits(ChaseTicks, ChaseTurns, ChaseClockSteps, 0, ChaseReverts, ChaseResets, << >>),
      Limits(FeastTicks, FeastTurns, FeastClockSteps, 0, FeastReverts, FeastResets, << >>),
      Limits(FillTicks, Len(FillKeys), FillClockSteps, 0, FillReverts, FillResets, FillKeys),
      Limits(EndgameTicks, Len(FillKeys), EndgameClockSteps, EndgameClockFrom, EndgameReverts,
             EndgameResets, FillKeys),
      Limits(ReverseTicks, Len(ReverseKeys), ReverseClockSteps, 0, ReverseReverts,
             ReverseResets, ReverseKeys),
      Limits(LiveTicks, 0, 0, 0, LiveReverts, LiveResets, << >>) }

VARIABLES
    snake,                  \* sequence of [x, y, prevX, prevY], head first
    food,                   \* [x, y]
    direction,
    score,
    width, height,          \* canvas.width, canvas.height
    gameSpeed,
    isGameOver,
    randomSprintsRemaining,
    foodChaseStartTime,     \* << >> for null, <<t>> for the timestamp t
    gameLogicInterval,      \* the timer the handle names: "running" or "cleared"
    snakeTimers,            \* number of snake intervals that are running
    snakePeriod,            \* period the last snake interval was started with
    snakeLeft,              \* time until the running snake interval fires next
    foodMoveInterval,
    foodTimers,
    animationFrameId,       \* the frame request the handle names: "pending", "fired" or "cancelled"
    frameRequests,          \* number of frame requests that are pending
    boostReverts,           \* due times of the pending boost-revert timeouts, oldest first
    now,                    \* performance.now()
    snakeTicks,             \* snake steps taken so far (exploration bound only)
    turns,                  \* direction changes so far (exploration bound only)
    resets,                 \* restart clicks so far (exploration bound only)
    appliedDirection,       \* direction of the last snake step, "none" before the first
    staleReverts,           \* pending boost reverts that were set before the last restart
    limits                  \* the limits of this run (exploration bound only)

gameVars == <<snake, food, direction, score, width, height, gameSpeed, isGameOver,
              randomSprintsRemaining, foodChaseStartTime>>
timerVars == <<gameLogicInterval, snakeTimers, snakePeriod, foodMoveInterval, foodTimers,
               animationFrameId, frameRequests>>
boundVars == <<snakeTicks, turns, resets, limits>>
vars == <<gameVars, timerVars, snakeLeft, boostReverts, now, boundVars, appliedDirection,
          staleReverts>>

\* the player is about to press the next of the keys of this run
KeyDue == turns < Len(limits.keys) /\ limits.keys[turns + 1].at = snakeTicks
\* the player may press this key now
KeyAllowed(key) == limits.keys = << >> \/ (KeyDue /\ limits.keys[turns + 1].key = key)
\* a snake step is explored now
StepAllowed == snakeTicks < limits.ticks /\ ~KeyDue

Directions == {"up", "down", "left", "right"}

Max(a, b) == IF a >= b THEN a ELSE b
Min(a, b) == IF a <= b THEN a ELSE b

Seg(x, y, px, py) == [x |-> x, y |-> y, prevX |-> px, prevY |-> py]

\* the grid cells {x, y} of a canvas of the given size
Cells(w, h) ==
    {<<gridSize * i, gridSize * j>> : i \in 0..((w \div gridSize) - 1),
                                      j \in 0..((h \div gridSize) - 1)}

Occupied(snk) == {<<snk[i].x, snk[i].y>> : i \in 1..Len(snk)}

\* ------------------------------------------------------------- generateFood
\* The do-while loop draws cells of the current canvas until one is not on the
\* snake: it can return any free cell, and never returns when there is none.
FreeCells(snk, w, h) == Cells(w, h) \ Occupied(snk)

\* the cells at most FoodReach grid cells (per axis) away from the head
NearHead(snk) ==
    {<<snk[1].x + gridSize * i, snk[1].y + gridSize * j>> :
        i \in (-FoodReach)..FoodReach, j \in (-FoodReach)..FoodReach}

\* variant: the drawn cell is not tested against the snake
GenerateFoodCellsAnywhere(snk, w, h) ==
    {c \in NearHead(snk) : c[1] >= 0 /\ c[1] < w /\ c[2] >= 0 /\ c[2] < h}

\* the draws that are explored: the free cells near the head, or every free
\* cell when none is near
GenerateFoodCells(snk, w, h) ==
    LET near == {c \in NearHead(snk) :
                    /\ c[1] >= 0 /\ c[1] < w /\ c[2] >= 0 /\ c[2] < h
                    /\ c \notin Occupied(snk)}
    IN  IF near # {} THEN near ELSE FreeCells(snk, w, h)

\* food.x/y take the drawn cell
generateFood(c) == [x |-> c[1], y |-> c[2]]

\* ------------------------------------------------------------------ initGame
InitialSnake ==
    << Seg(5 * gridSize, 5 * gridSize, 5 * gridSize, 5 * gridSize),
       Seg(4 * gridSize, 5 * gridSize, 4 * gridSize, 5 * gridSize) >>

\* variant: the interval the handle names is left running
ClearSnakeTimerNone(n, handle) == n

\* clearInterval / setInterval on the snake timer (cancel, then restart)
ClearSnakeTimer(n, handle) == IF handle = "running" THEN n - 1 ELSE n
ClearFoodTimer(n, handle) == IF handle = "running" THEN n - 1 ELSE n
CancelFrame(n, handle) == IF handle = "pending" THEN n - 1 ELSE n

\* the values initGame assigns, given what the timer handles name beforehand
InitGameFrom(glHandle, nSnake, fmHandle, nFood, afHandle, nFrames) ==
    /\ width' = initialCanvasWidth
    /\ height' = initialCanvasHeight
    /\ snake' = InitialSnake
    /\ direction' = "right"
    /\ score' = 0
    /\ isGameOver' = FALSE
    /\ gameSpeed' = baseGameSpeed
    /\ randomSprintsRemaining' = maxRandomSprints
    /\ foodChaseStartTime' = << >>
    /\ \E c \in GenerateFoodCells(InitialSnake, initialCanvasWidth, initialCanvasHeight) :
           food' = generateFood(c)
    /\ gameLogicInterval' = "running"
    /\ snakeTimers' = ClearSnakeTimer(nSnake, glHandle) + 1
    /\ snakePeriod' = baseGameSpeed
    /\ snakeLeft' = baseGameSpeed
    /\ foodMoveInterval' = "running"
    /\ foodTimers' = ClearFoodTimer(nFood, fmHandle) + 1
    \* animate(): isGameOver is false, so a frame is requested
    /\ animationFrameId' = "pending"
    /\ frameRequests' = CancelFrame(nFrames, afHandle) + 1

\* window.onload = initGame: every handle is still undefined
Init ==
    /\ now = 0
    /\ boostReverts = << >>
    /\ width = initialCanvasWidth
    /\ height = initialCanvasHeight
    /\ snake = InitialSnake
    /\ direction = "right"
    /\ score = 0
    /\ isGameOver = FALSE
    /\ gameSpeed = baseGameSpeed
    /\ randomSprintsRemaining = maxRandomSprints
    /\ foodChaseStartTime = << >>
    /\ \E c \in GenerateFoodCells(InitialSnake, initialCanvasWidth, initialCanvasHeight) :
           food = generateFood(c)
    /\ gameLogicInterval = "running"
    /\ snakeTimers = 1
    /\ snakePeriod = baseGameSpeed
    /\ snakeLeft = baseGameSpeed
    /\ foodMoveInterval = "running"
    /\ foodTimers = 1
    /\ animationFrameId = "pending"
    /\ frameRequests = 1
    /\ snakeTicks = 0
    /\ turns = 0
    /\ resets = 0
    /\ appliedDirection = "none"
    /\ staleReverts = 0
    /\ limits \in Profiles

\* the restart button's click listener
InitGame ==
    /\ InitGameFrom(gameLogicInterval, snakeTimers, foodMoveInterval, foodTimers,
                    animationFrameId, frameRequests)
    /\ resets < limits.resets
    /\ resets' = resets + 1
    /\ appliedDirection' = "none"
    /\ staleReverts' = Len(boostReverts)
    /\ UNCHANGED <<boostReverts, now, snakeTicks, turns, limits>>

\* ---------------------------------------------------------------- gameOver
GameOver ==
    /\ isGameOver' = TRUE
    /\ gameLogicInterval' = "cleared"
    /\ snakeTimers' = ClearSnakeTimer(snakeTimers, gameLogicInterval)
    /\ foodMoveInterval' = "cleared"
    /\ foodTimers' = ClearFoodTimer(foodTimers, foodMoveInterval)
    /\ animationFrameId' = "cancelled"
    /\ frameRequests' = CancelFrame(frameRequests, animationFrameId)
    /\ UNCHANGED <<snakePeriod, snakeLeft>>

\* --------------------------------------------------------- updateSnakeLogic
\* prevX/prevY of every segment take its current position
SnapshotPrev(snk) == [i \in 1..Len(snk) |-> Seg(snk[i].x, snk[i].y, snk[i].x, snk[i].y)]

\* the candidate head: one cell from the head in the current direction
NewHead(snk, dir) ==
    CASE dir = "up"    -> <<snk[1].x, snk[1].y - gridSize>>
      [] dir = "down"  -> <<snk[1].x, snk[1].y + gridSize>>
      [] dir = "left"  -> <<snk[1].x - gridSize, snk[1].y>>
      [] dir = "right" -> <<snk[1].x + gridSize, snk[1].y>>

WallCollision(h, w, ht) == h[1] < 0 \/ h[1] >= w \/ h[2] < 0 \/ h[2] >= ht

\* the loop runs over the array indices 1..length-1, i.e. every segment but the head
SelfCollision(h, snk) == \E i \in 2..Len(snk) : h[1] = snk[i].x /\ h[2] = snk[i].y

\* snake.unshift({x, y, prevX: snake[0].x, prevY: snake[0].y})
Unshift(h, snk) == <<Seg(h[1], h[2], snk[1].x, snk[1].y)>> \o snk

\* variant: the tail is never dropped
PopNone(snk) == snk

\* snake.pop()
Pop(snk) == SubSeq(snk, 1, Len(snk) - 1)

FoodEaten(h, f) == h[1] = f.x /\ h[2] = f.y

\* variant: the minimum size is not enforced
ShrinkNoFloor(dim) == dim - shrinkAmount * 2

\* Math.max(minCanvasSize, dim - shrinkAmount * 2)
Shrink(dim) == Max(minCanvasSize, dim - shrinkAmount * 2)

\* variant: segments are not moved after a shrink
ClampNone(v, dim) == v

\* Math.max(0, Math.min(v, dim - gridSize))
ClampInside(v, dim) == Max(0, Min(v, dim - gridSize))

ClampSnake(snk, w, ht) ==
    [i \in 1..Len(snk) |->
        Seg(ClampInside(snk[i].x, w), ClampInside(snk[i].y, ht), snk[i].prevX, snk[i].prevY)]

\* variant: the minimum interval is not enforced
SpeedUpNoFloor(g) == g - speedIncreaseAmount

\* Math.max(minGameSpeed, gameSpeed - speedIncreaseAmount)
SpeedUp(g) == Max(minGameSpeed, g - speedIncreaseAmount)

\* the food-eaten branch, with the snake already grown by the new head
EatFood(grown) ==
    LET newWidth == Shrink(width)
        newHeight == Shrink(height)
        clamped == ClampSnake(grown, newWidth, newHeight)
    IN  /\ score' = score + 10
        /\ width' = newWidth
        /\ height' = newHeight
        /\ snake' = clamped
        /\ \E c \in GenerateFoodCells(clamped, newWidth, newHeight) :
               food' = generateFood(c)
        /\ gameSpeed' = SpeedUp(gameSpeed)
        /\ gameLogicInterval' = "running"
        /\ snakeTimers' = ClearSnakeTimer(snakeTimers, gameLogicInterval) + 1
        /\ snakePeriod' = SpeedUp(gameSpeed)
        /\ snakeLeft' = SpeedUp(gameSpeed)
        /\ UNCHANGED <<isGameOver, foodMoveInterval, foodTimers, animationFrameId,
                       frameRequests>>

MoveOn(grown) ==
    /\ snake' = Pop(grown)
    \* the interval goes on: its next firing is a period away
    /\ snakeLeft' = snakePeriod
    /\ UNCHANGED <<food, score, width, height, gameSpeed, isGameOver, timerVars>>

\* one firing of a running snake interval
UpdateSnakeLogic ==
    /\ snakeTimers > 0
    /\ IF isGameOver
       THEN UNCHANGED vars
       ELSE /\ StepAllowed
            /\ snakeTicks' = snakeTicks + 1
            /\ appliedDirection' = direction
            /\ UNCHANGED <<direction, randomSprintsRemaining, foodChaseStartTime,
                           boostReverts, now, turns, resets, limits, staleReverts>>
            /\ LET snap == SnapshotPrev(snake)
                   head == NewHead(snap, direction)
               IN  IF WallCollision(head, width, height) \/ SelfCollision(head, snap)
                   THEN /\ GameOver
                        /\ snake' = snap
                        /\ UNCHANGED <<food, score, width, height, gameSpeed>>
                   ELSE IF FoodEaten(head, food)
                        THEN EatFood(Unshift(head, snap))
                        ELSE MoveOn(Unshift(head, snap))

\* ---------------------------------------------------------- keydown listener
\* variant: the reverse direction is not refused
TurnToAny(dir, key) == key

\* an arrow key or w/a/s/d
TurnTo(dir, key) ==
    CASE key = "up"    -> IF dir # "down"  THEN "up"    ELSE dir
      [] key = "down"  -> IF dir # "up"    THEN "down"  ELSE dir
      [] key = "left"  -> IF dir # "right" THEN "left"  ELSE dir
      [] key = "right" -> IF dir # "left"  THEN "right" ELSE dir

Turn(key) ==
    /\ KeyAllowed(key)
    /\ IF isGameOver THEN UNCHANGED direction ELSE direction' = TurnTo(direction, key)
    /\ turns' = IF direction' # direction THEN turns + 1 ELSE turns
    /\ turns' <= limits.turns
    /\ UNCHANGED <<snake, food, score, width, height, gameSpeed, isGameOver,
                   randomSprintsRemaining, foodChaseStartTime, timerVars, snakeLeft,
                   boostReverts, now, snakeTicks, resets, limits, appliedDirection, staleReverts>>

\* the spacebar: speed up, restart the snake interval, schedule the revert
Boost ==
    /\ Len(boostReverts) < limits.reverts
    /\ IF isGameOver
       THEN UNCHANGED vars
       ELSE /\ gameSpeed' = boostedGameSpeed
            /\ gameLogicInterval' = "running"
            /\ snakeTimers' = ClearSnakeTimer(snakeTimers, gameLogicInterval) + 1
            /\ snakePeriod' = boostedGameSpeed
            /\ snakeLeft' = boostedGameSpeed
            /\ boostReverts' = Append(boostReverts, now + sprintDuration)
            /\ UNCHANGED <<snake, food, direction, score, width, height, isGameOver,
                           randomSprintsRemaining, foodChaseStartTime, foodMoveInterval,
                           foodTimers, animationFrameId, frameRequests, now, boundVars,
                   appliedDirection, staleReverts>>

\* variant: the speed is reverted only by the last pending timeout
BoostRevertLast ==
    /\ boostReverts # << >>
    /\ Head(boostReverts) <= now
    /\ boostReverts' = Tail(boostReverts)
    /\ staleReverts' = Max(0, staleReverts - 1)
    /\ IF Len(boostReverts) = 1
       THEN /\ gameSpeed' = baseGameSpeed
            /\ gameLogicInterval' = "running"
            /\ snakeTimers' = ClearSnakeTimer(snakeTimers, gameLogicInterval) + 1
            /\ snakePeriod' = baseGameSpeed
            /\ snakeLeft' = baseGameSpeed
       ELSE UNCHANGED <<gameSpeed, gameLogicInterval, snakeTimers, snakePeriod, snakeLeft>>
    /\ UNCHANGED <<snake, food, direction, score, width, height, isGameOver,
                   randomSprintsRemaining, foodChaseStartTime, foodMoveInterval,
                   foodTimers, animationFrameId, frameRequests, now, boundVars,
                   appliedDirection>>

\* the setTimeout callback of a boost, once its delay has passed
BoostRevert ==
    /\ boostReverts # << >>
    /\ Head(boostReverts) <= now
    /\ boostReverts' = Tail(boostReverts)
    /\ staleReverts' = Max(0, staleReverts - 1)
    /\ gameSpeed' = baseGameSpeed
    /\ gameLogicInterval' = "running"
    /\ snakeTimers' = ClearSnakeTimer(snakeTimers, gameLogicInterval) + 1
    /\ snakePeriod' = baseGameSpeed
    /\ snakeLeft' = baseGameSpeed
    /\ UNCHANGED <<snake, food, direction, score, width, height, isGameOver,
                   randomSprintsRemaining, foodChaseStartTime, foodMoveInterval,
                   foodTimers, animationFrameId, frameRequests, now, boundVars,
                   appliedDirection>>

\* ------------------------------------------------------------------ animate
\* a pending frame request fires; draw() changes no state
Animate ==
    /\ frameRequests > 0
    /\ IF isGameOver
       THEN /\ frameRequests' = frameRequests - 1
            /\ animationFrameId' = IF animationFrameId = "pending" THEN "fired"
                                   ELSE animationFrameId
       ELSE /\ frameRequests' = frameRequests
            /\ animationFrameId' = "pending"
    /\ UNCHANGED <<gameVars, gameLogicInterval, snakeTimers, snakePeriod, snakeLeft,
                   foodMoveInterval, foodTimers, boostReverts, now, boundVars,
                   appliedDirection, staleReverts>>

\* -------------------------------------------------------------------- clock
Advance ==
    /\ snakeTicks >= limits.clockFrom
    /\ now + TimeStep <= limits.clock * TimeStep
    /\ now' = now + TimeStep
    /\ UNCHANGED <<gameVars, timerVars, snakeLeft, boostReverts, boundVars, appliedDirection,
                   staleReverts>>

\* --------------------------------------------------- findOptimalFleePosition
directionBonus == 100
longFleeBonus == 200
wallPenalty == 20

\* variant: the canvas bounds are not tested
isValidPositionNoWalls(x, y, ignoreHead, snk, w, ht) ==
    \A i \in (IF ignoreHead THEN 2 ELSE 1)..Len(snk) : ~(snk[i].x = x /\ snk[i].y = y)

\* isValidPosition(x, y, ignoreHead): inside the canvas and on no snake segment,
\* the head left out of the test when ignoreHead is set
isValidPosition(x, y, ignoreHead, snk, w, ht) ==
    /\ ~(x < 0 \/ x >= w \/ y < 0 \/ y >= ht)
    /\ \A i \in (IF ignoreHead THEN 2 ELSE 1)..Len(snk) : ~(snk[i].x = x /\ snk[i].y = y)

\* long flee: every cell whose "x,y" key is not in snakeBodySet, x in the outer
\* loop and y in the inner one
LongFleeMoves(snk, w, ht) ==
    LET ny == ht \div gridSize
        nx == w \div gridSize
        all == [k \in 1..(nx * ny) |->
                   <<gridSize * ((k - 1) \div ny), gridSize * ((k - 1) % ny)>>]
        Empty(c) == c \notin Occupied(snk)
    IN  SelectSeq(all, Empty)

\* regular flee: up, down, left, right of the food, kept when valid
AdjacentMoves(f, snk, w, ht) ==
    LET adjacent == << <<f.x, f.y - gridSize>>, <<f.x, f.y + gridSize>>,
                       <<f.x - gridSize, f.y>>, <<f.x + gridSize, f.y>> >>
        Valid(c) == isValidPosition(c[1], c[2], TRUE, snk, w, ht)
    IN  SelectSeq(adjacent, Valid)

\* The score of a candidate is sqrt(dx*dx + dy*dy) plus bonuses.  dx and dy are
\* multiples of gridSize and the bonuses are multiples of gridSize too, so the
\* score is kept exactly, in units of gridSize, as sqrt(d2) + bonus.
MoveScore(pos, head, dir, isLongFlee, w, ht) ==
    LET dx == pos[1] - head.x
        dy == pos[2] - head.y
        away == CASE dir = "up"    -> pos[2] > head.y
                  [] dir = "down"  -> pos[2] < head.y
                  [] dir = "left"  -> pos[1] > head.x
                  [] dir = "right" -> pos[1] < head.x
        onWall == pos[1] = 0 \/ pos[1] = w - gridSize \/ pos[2] = 0 \/ pos[2] = ht - gridSize
    IN  [d2 |-> (dx * dx + dy * dy) \div (gridSize * gridSize),
         bonus |-> ((IF away THEN directionBonus ELSE 0)
                    + (IF isLongFlee THEN longFleeBonus ELSE 0)
                    - (IF onWall THEN wallPenalty ELSE 0)) \div gridSize]

\* s > t for scores sqrt(d2) + bonus, decided in integers
ScoreGreater(s, t) ==
    LET d == t.bonus - s.bonus
        l == s.d2 - t.d2 - d * d
        m == t.d2 - s.d2 - d * d
    IN  IF d = 0 THEN s.d2 > t.d2
        ELSE IF d > 0 THEN l > 0 /\ l * l > 4 * d * d * t.d2
        ELSE m < 0 \/ m * m < 4 * d * d * s.d2

\* The scan over possibleMoves keeps the first move whose score no other move
\* exceeds: a move replaces the best so far only when its score is strictly
\* greater (maxScore starts at -Infinity, so the first move always does).
\* BestOf(moves, lo, hi) is the move the scan keeps over moves[lo..hi], << >> for
\* an empty range; the scan of a range is the scan of its first half followed
\* by the scan of its second half, whose best replaces the first half's only
\* when strictly greater.
RECURSIVE BestOf(_, _, _, _, _, _, _, _)
BestOf(moves, lo, hi, head, dir, isLongFlee, w, ht) ==
    IF lo > hi THEN << >>
    ELSE IF lo = hi THEN <<moves[lo]>>
    ELSE LET mid == (lo + hi) \div 2
             first == BestOf(moves, lo, mid, head, dir, isLongFlee, w, ht)
             second == BestOf(moves, mid + 1, hi, head, dir, isLongFlee, w, ht)
         IN  IF ScoreGreater(MoveScore(second[1], head, dir, isLongFlee, w, ht),
                             MoveScore(first[1], head, dir, isLongFlee, w, ht))
             THEN second ELSE first

\* << >> for null, <<pos>> for the best position
findOptimalFleePosition(f, snk, dir, isLongFlee, w, ht) ==
    LET possibleMoves == IF isLongFlee THEN LongFleeMoves(snk, w, ht)
                         ELSE AdjacentMoves(f, snk, w, ht)
    IN  BestOf(possibleMoves, 1, Len(possibleMoves), snk[1], dir, isLongFlee, w, ht)

\* ---------------------------------------------------------- updateFoodLogic
\* variant: the distance has to be below fleeDistance
WithinFleeDistanceStrict(f, snk) ==
    LET dx == f.x - snk[1].x
        dy == f.y - snk[1].y
    IN  dx * dx + dy * dy < fleeDistance * fleeDistance

\* Math.sqrt(dx*dx + dy*dy) <= fleeDistance
WithinFleeDistance(f, snk) ==
    LET dx == f.x - snk[1].x
        dy == f.y - snk[1].y
    IN  dx * dx + dy * dy <= fleeDistance * fleeDistance

MoveFood(pos) == [x |-> pos[1], y |-> pos[2]]

\* the regular flee at the end of the chased branch
RegularFlee(chaseStart) ==
    LET newFoodPos == findOptimalFleePosition(food, snake, direction, FALSE, width, height)
    IN  /\ food' = IF newFoodPos # << >> THEN MoveFood(newFoodPos[1]) ELSE food
        /\ foodChaseStartTime' = chaseStart
        /\ UNCHANGED randomSprintsRemaining

\* variant: the sprint count is not decremented
LongSprintKeepsCount(chaseStart) ==
    LET newFoodPos == findOptimalFleePosition(food, snake, direction, TRUE, width, height)
    IN  IF newFoodPos # << >>
        THEN /\ food' = MoveFood(newFoodPos[1])
             /\ UNCHANGED randomSprintsRemaining
             /\ foodChaseStartTime' = << >>
        ELSE RegularFlee(chaseStart)

\* the random long sprint; falls through to the regular flee when no cell is free
LongSprint(chaseStart) ==
    LET newFoodPos == findOptimalFleePosition(food, snake, direction, TRUE, width, height)
    IN  IF newFoodPos # << >>
        THEN /\ food' = MoveFood(newFoodPos[1])
             /\ randomSprintsRemaining' = randomSprintsRemaining - 1
             /\ foodChaseStartTime' = << >>
        ELSE RegularFlee(chaseStart)

\* variant: the chase duration has no upper limit
SprintWindowNoMax(chaseStart, currentTime) ==
    LET chaseDuration == currentTime - chaseStart[1]
    IN  /\ randomSprintsRemaining > 0
        /\ chaseDuration >= minChaseTime

\* the condition of the long sprint but for the Math.random() draw
SprintWindow(chaseStart, currentTime) ==
    LET chaseDuration == currentTime - chaseStart[1]
    IN  /\ randomSprintsRemaining > 0
        /\ chaseDuration >= minChaseTime
        /\ chaseDuration <= maxChaseTime

\* one firing of a running food interval
UpdateFoodLogic ==
    /\ foodTimers > 0
    /\ IF isGameOver
       THEN UNCHANGED vars
       ELSE /\ UNCHANGED <<snake, direction, score, width, height, gameSpeed, isGameOver,
                           timerVars, snakeLeft, boostReverts, now, boundVars,
                           appliedDirection, staleReverts>>
            /\ IF WithinFleeDistance(food, snake)
               THEN LET chaseStart == IF foodChaseStartTime = << >> THEN <<now>>
                                      ELSE foodChaseStartTime
                    IN  \/ /\ SprintWindow(chaseStart, now)
                           /\ LongSprint(chaseStart)      \* Math.random() < 0.05
                        \/ RegularFlee(chaseStart)        \* otherwise
               ELSE /\ foodChaseStartTime' = << >>
                    /\ food' = food
                    /\ UNCHANGED randomSprintsRemaining

\* ------------------------------------------------------------ specification
Next ==
    \/ InitGame
    \/ UpdateSnakeLogic
    \/ UpdateFoodLogic
    \/ Animate
    \/ \E key \in Directions : Turn(key)
    \/ Boost
    \/ BoostRevert
    \/ Advance

Spec == Init /\ [][Next]_vars

\* ------------------------------------------------- the snake interval in time
\* In this specification the snake interval fires when its period has passed
\* since it was started or fired last, and a boost is reverted when its delay
\* has passed.  Times are kept relative to the present: now stays as it is and
\* the pending delays decrease.  The listeners and timers that neither start
\* nor cancel the snake interval (direction keys, food interval, frames,
\* restart button) are left out.
LiveLimits == Limits(LiveTicks, 0, 0, 0, LiveReverts, LiveResets, << >>)

LiveInit == Init /\ limits = LiveLimits

\* the run is followed while the game goes on and snake steps remain
Followed == ~isGameOver /\ snakeTicks < limits.ticks

\* the snake interval is due and fires
TimedTick ==
    /\ snakeLeft = 0
    /\ UpdateSnakeLogic

\* every pending boost was started a multiple of KeyRepeat ago, none just now
OnKeyGrid ==
    \A i \in 1..Len(boostReverts) :
        /\ (boostReverts[i] - now) % KeyRepeat = 0
        /\ boostReverts[i] - now < sprintDuration

\* the spacebar, pressed or held
TimedBoost ==
    /\ Followed
    /\ OnKeyGrid
    /\ Boost

\* time until the next timer is due
NextDue ==
    IF boostReverts = << >> THEN snakeLeft ELSE Min(snakeLeft, Head(boostReverts) - now)

\* time until the next instant at which the spacebar may be pressed
NextPress ==
    IF boostReverts = << >> \/ (Head(boostReverts) - now) % KeyRepeat = 0
    THEN KeyRepeat
    ELSE (Head(boostReverts) - now) % KeyRepeat

\* time passes, up to the next instant looked at; no timer is due
Pass ==
    /\ Followed
    /\ snakeLeft > 0
    /\ \A i \in 1..Len(boostReverts) : boostReverts[i] > now
    /\ LET d == Min(NextDue, NextPress)
       IN  /\ snakeLeft' = snakeLeft - d
           /\ boostReverts' = [i \in 1..Len(boostReverts) |-> boostReverts[i] - d]
    /\ UNCHANGED <<gameVars, timerVars, now, boundVars, appliedDirection, staleReverts>>

\* the delay of the oldest pending boost has passed
TimedRevert ==
    /\ Followed
    /\ BoostRevert

LiveNext ==
    \/ TimedTick
    \/ TimedBoost
    \/ TimedRevert
    \/ Pass

\* timers that are due fire, and time passes
SpecLive ==
    /\ LiveInit
    /\ [][LiveNext]_vars
    /\ WF_vars(TimedTick)
    /\ WF_vars(TimedRevert)
    /\ WF_vars(Pass)

\* ============================================================ the claims
\* what the claims speak of, stated apart from the definitions above
SegmentAt(i) == <<snake[i].x, snake[i].y>>

\* the cell one step ahead of the head
CandidateHead ==
    <<snake[1].x + (IF direction = "right" THEN gridSize
                    ELSE IF direction = "left" THEN -gridSize ELSE 0),
      snake[1].y + (IF direction = "down" THEN gridSize
                    ELSE IF direction = "up" THEN -gridSize ELSE 0)>>

OutsideArena(c) == c[1] < 0 \/ c[1] > width - gridSize \/ c[2] < 0 \/ c[2] > height - gridSize

HitsBody(c) == \E i \in 2..Len(snake) : SegmentAt(i) = c

StepSucceeds == ~OutsideArena(CandidateHead) /\ ~HitsBody(CandidateHead)

LandsOnFood == CandidateHead = <<food.x, food.y>>

\* a step that is a snake tick past the game-over test
SnakeTickStep == snakeTicks' = snakeTicks + 1

\* a step that is a reset
ResetStep == resets' = resets + 1

\* C1: in every reachable state no two snake segments have the same position.
C1_NoSharedPosition ==
    \A i, j \in 1..Len(snake) : i # j => SegmentAt(i) # SegmentAt(j)

\* C2: a snake tick never shortens the snake; it lengthens it by exactly one
\* when the step succeeds and the new head is on the food's position at the
\* start of the tick, and leaves the length unchanged otherwise.
C2_LengthPerTick ==
    [][SnakeTickStep =>
          Len(snake') = IF StepSucceeds /\ LandsOnFood THEN Len(snake) + 1 ELSE Len(snake)]_vars

\* the first tick ate the food: the snake has grown to three segments
C2_Grown == snakeTicks = 1 /\ score = 10 /\ Len(snake) = 3

\* C3: every segment is inside the current arena in every reachable state, and
\* a snake tick whose candidate head is outside the arena sets isGameOver and
\* leaves the number of segments and their positions as they were.
C3_InsideArena ==
    /\ [](\A i \in 1..Len(snake) :
            /\ 0 <= snake[i].x /\ snake[i].x < width
            /\ 0 <= snake[i].y /\ snake[i].y < height)
    /\ [][SnakeTickStep /\ OutsideArena(CandidateHead) =>
             /\ isGameOver'
             /\ Len(snake') = Len(snake)
             /\ \A i \in 1..Len(snake) :
                    snake'[i].x = snake[i].x /\ snake'[i].y = snake[i].y]_vars

\* the game ended at the right wall of a shrunk arena, the head on the last column
C3_WallHit ==
    /\ isGameOver
    /\ score > 0
    /\ snake[1].x = width - gridSize
    /\ direction = "right"

\* C4: width and height are at least minCanvasSize and multiples of the cell
\* size in every reachable state, and no step but a reset increases them.
C4_ArenaOnlyShrinks ==
    /\ [](/\ width >= minCanvasSize /\ height >= minCanvasSize
          /\ width % gridSize = 0 /\ height % gridSize = 0)
    /\ [][~ResetStep => width' <= width /\ height' <= height]_vars

\* the arena has been shrunk down to its minimum size
C4_AtMinimum == width = minCanvasSize /\ height = minCanvasSize /\ score = 80

Abs(a) == IF a >= 0 THEN a ELSE -a

\* a step of the food alone that takes it further than one cell
LongEscapeStep ==
    /\ ~ResetStep
    /\ ~SnakeTickStep
    /\ Abs(food'.x - food.x) + Abs(food'.y - food.y) > gridSize

\* C5: randomSprintsRemaining is 1 at the start and after a reset, is never
\* negative, never increases within a session, and every long escape takes it
\* from 1 to 0, so a session sees at most one.
C5_OneLongEscape ==
    /\ randomSprintsRemaining = 1
    /\ [](randomSprintsRemaining \in 0..1)
    /\ [][/\ ResetStep => randomSprintsRemaining' = 1
          /\ ~ResetStep => randomSprintsRemaining' <= randomSprintsRemaining
          /\ LongEscapeStep => randomSprintsRemaining = 1 /\ randomSprintsRemaining' = 0]_vars

\* the long escape of the session has been made
C5_EscapeUsed == randomSprintsRemaining = 0 /\ foodChaseStartTime = << >>

\* C6: a reset from any state gives the initial state: a snake of two segments
\* at (100,100) and (80,100), direction right, score 0, the base tick interval,
\* a 400x400 arena, isGameOver false, one long escape left, no chase timer, and
\* the food on a cell of the arena that no segment occupies.
C6_ResetGivesInitialState ==
    [][ResetStep =>
          /\ Len(snake') = 2
          /\ snake'[1].x = 100 /\ snake'[1].y = 100
          /\ snake'[2].x = 80 /\ snake'[2].y = 100
          /\ direction' = "right"
          /\ score' = 0
          /\ gameSpeed' = baseGameSpeed
          /\ snakePeriod' = baseGameSpeed
          /\ width' = 400 /\ height' = 400
          /\ isGameOver' = FALSE
          /\ randomSprintsRemaining' = 1
          /\ foodChaseStartTime' = << >>
          /\ food'.x \in 0..380 /\ food'.x % gridSize = 0
          /\ food'.y \in 0..380 /\ food'.y % gridSize = 0
          /\ \A i \in 1..2 : ~(food'.x = snake'[i].x /\ food'.y = snake'[i].y)]_vars

\* the game has been restarted after the snake had used all its steps
C6_Restarted ==
    /\ resets = 1
    /\ snakeTicks = RestartTicks
    /\ ~isGameOver
    /\ Len(snake) = 2
    /\ gameSpeed = baseGameSpeed

\* C7: a snake tick whose new head lands on the food adds 10 to the score,
\* takes 40 off the width and the height down to 100 at least, and takes 5 off
\* the tick interval down to 50 at least; any other snake tick leaves score,
\* arena size and interval as they were.
C7_EatUpdates ==
    [][SnakeTickStep =>
          IF StepSucceeds /\ LandsOnFood
          THEN /\ score' = score + 10
               /\ width' = (IF width - 40 > 100 THEN width - 40 ELSE 100)
               /\ height' = (IF height - 40 > 100 THEN height - 40 ELSE 100)
               /\ gameSpeed' = (IF gameSpeed - 5 > 50 THEN gameSpeed - 5 ELSE 50)
          ELSE UNCHANGED <<score, width, height, gameSpeed>>]_vars

\* the scenario: from (100,100) the head moved right onto the food at (120,100)
C7_FirstMeal ==
    /\ snakeTicks = 1
    /\ snake[1].x = 120 /\ snake[1].y = 100
    /\ score = 10
    /\ width = 360 /\ height = 360
    /\ gameSpeed = 145

Opposite(dir) ==
    CASE dir = "up" -> "down" [] dir = "down" -> "up"
      [] dir = "left" -> "right" [] dir = "right" -> "left"

\* C8: a turn command, the game not being over, leaves the direction as it is
\* when it asks for the exact opposite and sets it to the requested one
\* otherwise; a change of direction changes nothing else.
C8_Turn ==
    /\ [](\A key \in Directions :
            TurnTo(direction, key) = IF key = Opposite(direction) THEN direction ELSE key)
    /\ [][direction' # direction /\ ~ResetStep =>
             /\ ~isGameOver
             /\ direction' # Opposite(direction)
             /\ UNCHANGED <<snake, food, score, width, height, gameSpeed, isGameOver,
                            randomSprintsRemaining, foodChaseStartTime, timerVars,
                            boostReverts, now>>]_vars

\* a turn has been accepted
C8_Turned == turns = 1 /\ direction = "up" /\ snakeTicks = 0

\* a step in which a boost-revert timeout fires
RevertStep == Len(boostReverts') < Len(boostReverts)

\* C9: every firing of a boost-revert timeout sets the tick interval to the
\* base interval and restarts the snake timer with it, whatever was eaten and
\* whatever other boosts are pending; with nothing pending any more after two
\* boosts, the interval is the base interval.
C9_RevertToBase ==
    [][RevertStep =>
          /\ gameSpeed' = baseGameSpeed
          /\ gameLogicInterval' = "running"
          /\ snakeTimers' >= 1
          /\ snakePeriod' = baseGameSpeed]_vars

\* after a meal, one of two overlapping boosts has reverted and the other is
\* still pending: the interval is the base interval
C9_RevertedMidBoost ==
    /\ resets = 0
    /\ score > 0
    /\ Len(boostReverts) = 1
    /\ gameSpeed = baseGameSpeed

\* C10: once isGameOver is true, no step but a reset changes the session state.
C10_FrozenAfterGameOver ==
    [][isGameOver /\ ~ResetStep => UNCHANGED gameVars]_vars

\* C11: while the game is over, no snake interval, no food interval and no
\* frame request is active.
C11_NothingScheduledAfterGameOver ==
    isGameOver => snakeTimers = 0 /\ foodTimers = 0 /\ frameRequests = 0

\* C12: in every reachable state at most one snake interval, one food interval
\* and one frame request are active, and the active one is the one its handle
\* names: whatever was started earlier has been cancelled.
C12_OneTimerEach ==
    /\ snakeTimers \in 0..1 /\ foodTimers \in 0..1 /\ frameRequests \in 0..1
    /\ snakeTimers = 1 <=> gameLogicInterval = "running"
    /\ foodTimers = 1 <=> foodMoveInterval = "running"
    /\ frameRequests = 1 <=> animationFrameId = "pending"

\* after a reset the snake interval has been replaced by a boost, with the
\* boost of the session before still pending
C12_ReplacedTwice ==
    /\ resets = 1
    /\ Len(boostReverts) = 2
    /\ snakePeriod = boostedGameSpeed
    /\ snakeTimers = 1 /\ foodTimers = 1 /\ frameRequests = 1

\* the head-food distance is at most 40
HeadNearFood ==
    (food.x - snake[1].x) * (food.x - snake[1].x)
        + (food.y - snake[1].y) * (food.y - snake[1].y) <= 40 * 40

\* a step in which a long escape is performed
SprintUsedStep == randomSprintsRemaining' = randomSprintsRemaining - 1

\* a step of the food logic that changes something
FoodTickStep ==
    /\ ~ResetStep
    /\ ~SnakeTickStep
    /\ <<food, foodChaseStartTime, randomSprintsRemaining>>'
          # <<food, foodChaseStartTime, randomSprintsRemaining>>

\* C13: while randomSprintsRemaining is 0, a food tick leaves the food where
\* it is or moves it by one cell, up, down, left or right, to a cell inside the
\* arena that no body segment occupies.
C13_OnlyAdjacentMoves ==
    [][randomSprintsRemaining = 0 /\ FoodTickStep =>
          \/ food' = food
          \/ /\ Abs(food'.x - food.x) + Abs(food'.y - food.y) = gridSize
             /\ food'.x >= 0 /\ food'.x <= width - gridSize
             /\ food'.y >= 0 /\ food'.y <= height - gridSize
             /\ \A i \in 2..Len(snake) :
                    ~(food'.x = snake[i].x /\ food'.y = snake[i].y)]_vars

\* the long escape is used up and the food, that has fled one cell at a time
\* since, has had the snake within flee distance for 5000 ms
C13_ChasedWithoutSprints ==
    /\ randomSprintsRemaining = 0
    /\ foodChaseStartTime # << >>
    /\ now - foodChaseStartTime[1] >= maxChaseTime
    /\ HeadNearFood
    /\ ~isGameOver

\* the next snake tick is explored, succeeds and lands on the food
MealAhead ==
    /\ ~isGameOver
    /\ snakeTimers > 0
    /\ StepAllowed
    /\ StepSucceeds
    /\ LandsOnFood

\* the arena as it is after the next meal
WidthAfterMeal == IF width - 40 > 100 THEN width - 40 ELSE 100
HeightAfterMeal == IF height - 40 > 100 THEN height - 40 ELSE 100

\* with the food eaten, the snake is on every cell of the arena
NoCellLeft ==
    /\ Len(snake) + 1 >= (WidthAfterMeal \div gridSize) * (HeightAfterMeal \div gridSize)
    /\ \A i \in 0..((WidthAfterMeal \div gridSize) - 1),
          j \in 0..((HeightAfterMeal \div gridSize) - 1) :
            \/ CandidateHead = <<gridSize * i, gridSize * j>>
            \/ \E k \in 1..Len(snake) : SegmentAt(k) = <<gridSize * i, gridSize * j>>

\* C14: a snake tick that eats the food completes also when the snake then
\* occupies every cell of the arena, so that no cell is left for the food.
C14_PlacementCompletes == (MealAhead /\ NoCellLeft) => ENABLED UpdateSnakeLogic

\* C15: a long escape is performed only with the head within 40 of the food,
\* randomSprintsRemaining > 0 and a chase that has lasted between 3000 and
\* 5000 ms; it puts the food on the cell the long-flee search chose, which is
\* inside the arena and free of the snake, takes one off
\* randomSprintsRemaining and clears the chase start.
C15_LongEscape ==
    [][SprintUsedStep =>
          /\ HeadNearFood
          /\ randomSprintsRemaining > 0
          /\ foodChaseStartTime # << >>
          /\ now - foodChaseStartTime[1] >= 3000
          /\ now - foodChaseStartTime[1] <= 5000
          /\ food'.x >= 0 /\ food'.x < width /\ food'.y >= 0 /\ food'.y < height
          /\ \A i \in 1..Len(snake) : ~(food'.x = snake[i].x /\ food'.y = snake[i].y)
          /\ <<food'.x, food'.y>>
                = findOptimalFleePosition(food, snake, direction, TRUE, width, height)[1]
          /\ foodChaseStartTime' = << >>
          /\ UNCHANGED <<snake, direction, score, width, height>>]_vars

\* the long escape was made at the very end of the window: the chase had
\* started at 0 and the clock reads 5000
C15_EscapedAtWindowEnd ==
    /\ randomSprintsRemaining = 0
    /\ now = maxChaseTime
    /\ snakeTicks = 0
    /\ ~HeadNearFood

\* C16: a food tick with the head further than 40 from the food clears the
\* chase start and leaves the food where it is; with the head within 40 and
\* no chase start it sets the chase start to the current time; with the head
\* within 40 and a chase start it keeps that start, unless it performs a long
\* escape.  Nothing but a food tick or a reset changes the chase start.
C16_ChaseTimer ==
    /\ [][FoodTickStep =>
             IF ~HeadNearFood
             THEN foodChaseStartTime' = << >> /\ food' = food
             ELSE IF foodChaseStartTime = << >>
                  THEN foodChaseStartTime' = <<now>>
                  ELSE \/ foodChaseStartTime' = foodChaseStartTime
                       \/ SprintUsedStep /\ foodChaseStartTime' = << >>]_vars
    /\ [][SnakeTickStep => foodChaseStartTime' = foodChaseStartTime]_vars

\* a chase that started at 0 is still on at 1000, the food having fled out of
\* reach of a snake that has not moved
C16_StillChased ==
    /\ foodChaseStartTime = <<0>>
    /\ now = 2 * TimeStep
    /\ snakeTicks = 0
    /\ ~HeadNearFood
    /\ randomSprintsRemaining = 1

\* C17: as long as the 500 ms of a boost have not passed, the tick interval is
\* below the base interval (resets set apart).
C17_BoostedForFullDuration ==
    (resets = 0 /\ \E i \in 1..Len(boostReverts) : boostReverts[i] > now)
        => gameSpeed < baseGameSpeed

\* C18: in every reachable state 50 <= gameSpeed <= 150.
C18_SpeedRange == gameSpeed >= 50 /\ gameSpeed <= 150

\* a boost and three meals: the interval went 60, 55, 50 and stayed at 50
C18_AtFloor ==
    /\ gameSpeed = minGameSpeed
    /\ score = 30
    /\ boostReverts # << >>

\* C19: in every reachable state the score is a multiple of 10, the snake has
\* 2 + score/10 segments, and width = height = max(100, 400 - 4*score).
C19_LockStep ==
    /\ score % 10 = 0
    /\ Len(snake) = 2 + score \div 10
    /\ width = height
    /\ width = (IF 400 - 4 * score > 100 THEN 400 - 4 * score ELSE 100)

\* eight meals: ten segments in an arena that cannot shrink any further
C19_TenSegments ==
    /\ Len(snake) = 10
    /\ width = minCanvasSize
    /\ snakeTicks = 8

\* C20: in every reachable state the food is on no snake segment, head included.
C20_FoodOffSnake ==
    \A i \in 1..Len(snake) : ~(food.x = snake[i].x /\ food.y = snake[i].y)

\* C21: a snake tick that succeeds never moves the head in the direction
\* opposite to the one the snake tick before it moved it in, whatever turn
\* commands have arrived in between.
C21_NoReversal ==
    [][SnakeTickStep /\ ~isGameOver' /\ appliedDirection # "none"
          => direction # Opposite(appliedDirection)]_vars

\* C22: while the game is not over a snake tick eventually fires, however
\* boosts and their reverts restart the snake interval.
C22_TickEventuallyFires ==
    \A n \in 0..(LiveTicks - 1) : (snakeTicks = n /\ ~isGameOver) ~> (snakeTicks > n)

\* a step in which the timeout of a boost of an earlier session fires
StaleRevertStep == staleReverts > 0 /\ staleReverts' = staleReverts - 1

\* C23: when the revert timeout of a boost made before the last restart
\* fires, the snake interval and its period stay as the present session has
\* set them.
C23_StaleRevertHasNoEffect ==
    [][StaleRevertStep =>
          UNCHANGED <<gameSpeed, snakePeriod, snakeTimers, gameLogicInterval>>]_vars

====
